---- MODULE Spec2Model ----
(***************************************************************************)
(* Model of the RecomText training loop (src/trainers/trainer.py) and of   *)
(* the history preprocessing pipeline (src/data/software_socdem.py).       *)
(*                                                                         *)
(* Two specifications share the module:                                    *)
(*   Spec     Trainer.train with Trainer.validate / _save_checkpoint       *)
(*   SpecPre  software_socdem.main with create_repo_history_sorted         *)
(* Each leaves the other's variables untouched.                            *)
(*                                                                         *)
(* External collaborators (the indexer, faiss, pandas readers, the model   *)
(* and the losses) are inputs: each call succeeds or raises, chosen by \E. *)
(* Code of the repository is followed statement by statement; an exception *)
(* that no try/except of the repository catches ends the call chain.       *)
(* _process_user raises on each of its paths, so validate() returns        *)
(* metrics only when no validation batch holds a user; contextual_ndcg is  *)
(* then absent from the returned dict and train() reads the default 0.     *)
(***************************************************************************)
EXTENDS Integers, Sequences, FiniteSets

\* ------------------------------------------------------------------ bounds
MaxEpochs == 5          \* largest `epochs` argument of Trainer.train
MaxPatience == 3        \* largest config training.patience
MaxTrainBatches == 1    \* largest len(train_loader)
MaxValBatches == 2      \* largest len(val_loader)
MaxBatchUsers == 1      \* largest user_embeddings.size(0) of a validation batch
MaxRows == 4            \* largest number of records in repo_metadata.json
MaxTime == 3            \* pushedAt timestamps range over 1..MaxTime

\* Values the two losses of one validation batch take in the model, and the
\* weight config['training']['lambda_rec'] of the recommendation loss.
ContrastiveLossValues == {1}
RecommendationLossValues == {0, 1}
LambdaRec == 1

VARIABLES
    \* --- Trainer: constructor / call arguments
    epochs,             \* argument of train(epochs)
    patience,           \* self.patience
    train_loader,       \* len(self.train_loader)
    val_loader,         \* self.val_loader: sequence of batch sizes (users per batch)
    \* --- Trainer: fields and position in train()
    pc,                 \* position in Trainer.train
    epoch,              \* loop variable of train()
    best_metric,        \* self.best_metric
    best_epoch,         \* self.best_epoch
    no_improvement,     \* self.no_improvement
    val,                \* locals of the running validate() call
    val_metrics,        \* value returned by validate()
    error,              \* exception that left train(), "none" if none
    \* --- Trainer: effects on the outside world
    checkpoints,        \* model.save_pretrained calls, in order
    index_requests,     \* indexer calls made by _save_checkpoint, in order
    log,                \* kinds of diagnostic messages printed so far
    history,            \* per epoch, what validate() returned
    \* --- preprocessing pipeline
    source_present,     \* repo_metadata.json exists
    data,               \* the DataFrame returned by load_data
    pre_pc,             \* position in main()
    user_history_df,    \* result of create_repo_history_sorted
    files,              \* artifacts written to ./data
    pre_error           \* exception that left main(), "none" if none

trainerVars == <<epochs, patience, train_loader, val_loader, pc, epoch, best_metric,
                 best_epoch, no_improvement, val, val_metrics, error, checkpoints,
                 index_requests, log, history>>
preVars == <<source_present, data, pre_pc, user_history_df, files, pre_error>>
vars == <<trainerVars, preVars>>

\* ------------------------------------------------------- numbers and dicts
\* Metric values are Python floats obtained by true division; they are kept as
\* exact fractions <<numerator, denominator>> with a positive denominator.
Frac(n, d) == <<n, d>>
Zero == Frac(0, 1)

\* float('-inf'): below every fraction (denominator 0 marks the infinity).
NegInf == <<-1, 0>>

\* a > b on floats, b possibly float('-inf').
Gt(a, b) ==
    IF a = NegInf THEN FALSE
    ELSE IF b = NegInf THEN TRUE
    ELSE a[1] * b[2] > b[1] * a[2]

\* dict.get(key, default)
Get(d, key, default) == IF key \in DOMAIN d THEN d[key] ELSE default

\* validate() returning None
NoMetrics == [is_none |-> TRUE, dict |-> [k \in {} |-> Zero]]

\* `if val_metrics:` -- None and the empty dict are falsy.
Truthy(vm) == ~vm.is_none /\ DOMAIN vm.dict # {}

\* Python's for-loop over a loader: the sequences of at most n elements of S.
SeqsUpTo(S, n) == UNION {[1..k -> S] : k \in 0..n}

\* ------------------------------------------------------------ Trainer parts
\* os.path.join(checkpoint_dir, f'model_epoch_{epoch}')
ModelPath(ep) == <<"model_epoch", ep>>

\* train_epoch(): the loop over train_loader, then the three divisions by
\* len(self.train_loader).  Nothing in it catches an exception.
train_epoch(n_batches, steps_ok) ==
    IF n_batches > 0 /\ ~steps_ok THEN "training_step raised"
    ELSE IF n_batches = 0 THEN "ZeroDivisionError in train_epoch"
    ELSE "ok"

\* Variant: the unconditional checkpoint tied to the second epoch.
IsFirstEpoch_Second(ep) == ep = 1

\* `if epoch == 0:` before the unconditional checkpoint.
IsFirstEpoch(ep) == ep = 0

\* Variant: the failure of the indexer swallowed without a message.
SaveCheckpoint_Silent(ckpts, reqs, lg, ep, rebuild_ok) ==
    [checkpoints    |-> Append(ckpts, ModelPath(ep)),
     index_requests |-> Append(reqs, [model_path |-> ModelPath(ep), ok |-> rebuild_ok]),
     log            |-> IF rebuild_ok THEN lg \cup {"FAISS index updated successfully"} ELSE lg,
     raised         |-> FALSE]

\* Variant: the indexer call outside any try/except.
SaveCheckpoint_Uncaught(ckpts, reqs, lg, ep, rebuild_ok) ==
    [checkpoints    |-> Append(ckpts, ModelPath(ep)),
     index_requests |-> Append(reqs, [model_path |-> ModelPath(ep), ok |-> rebuild_ok]),
     log            |-> IF rebuild_ok THEN lg \cup {"FAISS index updated successfully"} ELSE lg,
     raised         |-> ~rebuild_ok]

\* _save_checkpoint(epoch, metrics): save_pretrained to the epoch's path, then
\* the indexer call inside try/except.  `metrics` is not used by the method.
\* rebuild_ok is the outcome of the external indexer.
SaveCheckpoint(ckpts, reqs, lg, ep, rebuild_ok) ==
    [checkpoints    |-> Append(ckpts, ModelPath(ep)),
     index_requests |-> Append(reqs, [model_path |-> ModelPath(ep), ok |-> rebuild_ok]),
     log            |-> lg \cup {IF rebuild_ok THEN "FAISS index updated successfully"
                                              ELSE "Error updating index"},
     raised         |-> FALSE]

\* The index check of validate(): artifacts present, or created on demand, or
\* the on-demand creation raised (caught: validate returns None).
IndexCheck(files_exist, create_ok) ==
    IF files_exist THEN "present"
    ELSE IF create_ok THEN "created"
    ELSE "create_failed"

\* Outcomes of the demographic try-block of validate():
\*   loaded          the block ran to its end
\*   read_failed     pd.read_parquet raised: demographic_data is never bound
\*   centroid_failed a later statement raised: demographic_data is bound
\* In both failure cases demographic_centroids = None.
DemoOutcomes == {"loaded", "read_failed", "centroid_failed"}

\* The call of _process_user for one user and what it does.
ProcessUser(demographic) ==
    IF demographic = "read_failed"
    THEN \* the argument list reads the unbound local demographic_data
         "UnboundLocalError: demographic_data"
    ELSE IF demographic = "loaded"
    THEN \* demographic_centroids is not None: self.val_dataset, user_ids, i
         \* and demographic_features are not defined in _process_user
         "NameError in _process_user"
    ELSE \* demographic_centroids is None: user_metrics is never assigned
         "UnboundLocalError: user_metrics"

MetricKeys == {"semantic_precision@k", "cross_category_relevance", "contextual_ndcg"}
LossKeys == {"val_loss", "val_contrastive_loss", "val_recommendation_loss"}

\* _compile_metrics: losses over len(val_loader); accumulated metrics over
\* num_users, only when num_users > 0.
CompileMetrics(total_loss, contrastive_loss, recommendation_loss, accum, num_users, n) ==
    [is_none |-> FALSE,
     dict |-> [k \in LossKeys \cup (IF num_users > 0 THEN DOMAIN accum ELSE {}) |->
                 IF k = "val_loss" THEN Frac(total_loss, n)
                 ELSE IF k = "val_contrastive_loss" THEN Frac(contrastive_loss, n)
                 ELSE IF k = "val_recommendation_loss" THEN Frac(recommendation_loss, n)
                 ELSE Frac(accum[k], num_users)]]

\* val_metrics.get('contextual_ndcg', 0)
CurrentMetric(vm) == Get(vm.dict, "contextual_ndcg", Zero)

\* Variant: `>=` in place of `>`.
Improved_OrEqual(current_metric, best) == ~Gt(best, current_metric)

\* `if current_metric > self.best_metric:`
Improved(current_metric, best) == Gt(current_metric, best)

\* Variant: best_epoch left as it is on an improvement.
CompareToBest_StaleEpoch(vm, best, bepoch, noimp, ep) ==
    IF ~Truthy(vm)
    THEN [best_metric |-> best, best_epoch |-> bepoch, no_improvement |-> noimp,
          save |-> FALSE]
    ELSE IF Improved(CurrentMetric(vm), best)
    THEN [best_metric |-> CurrentMetric(vm), best_epoch |-> bepoch, no_improvement |-> 0,
          save |-> TRUE]
    ELSE [best_metric |-> best, best_epoch |-> bepoch, no_improvement |-> noimp + 1,
          save |-> FALSE]

\* Variant: a skipped validation counted as an epoch without improvement.
CompareToBest_SkipCounts(vm, best, bepoch, noimp, ep) ==
    IF Truthy(vm) /\ Improved(CurrentMetric(vm), best)
    THEN [best_metric |-> CurrentMetric(vm), best_epoch |-> ep, no_improvement |-> 0,
          save |-> TRUE]
    ELSE [best_metric |-> best, best_epoch |-> bepoch, no_improvement |-> noimp + 1,
          save |-> FALSE]

\* The body of `if val_metrics:` up to the early-stopping test: the new
\* best_metric, best_epoch, no_improvement and whether a checkpoint is saved.
CompareToBest(vm, best, bepoch, noimp, ep) ==
    IF ~Truthy(vm)
    THEN [best_metric |-> best, best_epoch |-> bepoch, no_improvement |-> noimp,
          save |-> FALSE]
    ELSE IF Improved(CurrentMetric(vm), best)
    THEN [best_metric |-> CurrentMetric(vm), best_epoch |-> ep, no_improvement |-> 0,
          save |-> TRUE]
    ELSE [best_metric |-> best, best_epoch |-> bepoch, no_improvement |-> noimp + 1,
          save |-> FALSE]

\* Variant: `>` in place of `>=`.
EarlyStop_OffByOne(vm, noimp, pat) == Truthy(vm) /\ noimp > pat

\* `if self.no_improvement >= self.patience: break`, nested in `if val_metrics:`.
EarlyStop(vm, noimp, pat) == Truthy(vm) /\ noimp >= pat

\* What validate() returned for one epoch.
Skipped == [validated |-> FALSE, ndcg |-> Zero]
Validated(vm) == [validated |-> TRUE, ndcg |-> CurrentMetric(vm)]

\* batch_losses holds the sums of con_loss and of rec_loss over the batches
\* seen so far.
NoVal == [batch_idx |-> 0, total_loss |-> 0, num_users |-> 0,
          batch_losses |-> [contrastive |-> 0, recommendation |-> 0],
          demographic |-> "unset", index |-> "unset",
          metrics_accum |-> [k \in MetricKeys |-> 0]]

\* ------------------------------------------------------------ Trainer steps
PreIdle ==
    /\ source_present = FALSE
    /\ data = <<>>
    /\ pre_pc = "idle"
    /\ user_history_df = <<>>
    /\ files = {}
    /\ pre_error = "none"

\* Trainer.__init__ followed by the call train(epochs).
Init ==
    /\ epochs \in 0..MaxEpochs
    /\ patience \in 0..MaxPatience
    /\ train_loader \in 0..MaxTrainBatches
    /\ val_loader \in SeqsUpTo(0..MaxBatchUsers, MaxValBatches)
    /\ pc = "loop"
    /\ epoch = 0
    /\ best_metric = NegInf
    /\ best_epoch = 0
    /\ no_improvement = 0
    /\ val = NoVal
    /\ val_metrics = NoMetrics
    /\ error = "none"
    /\ checkpoints = <<>>
    /\ index_requests = <<>>
    /\ log = {}
    /\ history = <<>>
    /\ PreIdle

inputsUnchanged == UNCHANGED <<epochs, patience, train_loader, val_loader>>
fieldsUnchanged == UNCHANGED <<best_metric, best_epoch, no_improvement>>
worldUnchanged == UNCHANGED <<checkpoints, index_requests>>

\* range(epochs) is exhausted: train() returns normally.
Complete ==
    /\ pc = "loop"
    /\ epoch = epochs
    /\ pc' = "completed"
    /\ UNCHANGED <<epoch, val, val_metrics, error, log, history>>
    /\ inputsUnchanged /\ fieldsUnchanged /\ worldUnchanged
    /\ UNCHANGED preVars

\* train_metrics = self.train_epoch()
TrainEpoch ==
    /\ pc = "loop"
    /\ epoch < epochs
    /\ \E steps_ok \in BOOLEAN :
          LET r == train_epoch(train_loader, steps_ok) IN
          IF r = "ok"
          THEN /\ pc' = IF IsFirstEpoch(epoch) THEN "first_checkpoint" ELSE "validate"
               /\ error' = error
          ELSE /\ pc' = "error"
               /\ error' = r
    /\ UNCHANGED <<epoch, val, val_metrics, log, history>>
    /\ inputsUnchanged /\ fieldsUnchanged /\ worldUnchanged
    /\ UNCHANGED preVars

\* if epoch == 0: self._save_checkpoint(epoch)
FirstCheckpoint ==
    /\ pc = "first_checkpoint"
    /\ \E rebuild_ok \in BOOLEAN :
          LET s == SaveCheckpoint(checkpoints, index_requests, log, epoch, rebuild_ok) IN
          /\ checkpoints' = s.checkpoints
          /\ index_requests' = s.index_requests
          /\ log' = s.log
          /\ pc' = IF s.raised THEN "error" ELSE "validate"
          /\ error' = IF s.raised THEN "indexer raised" ELSE error
    /\ UNCHANGED <<epoch, val, val_metrics, history>>
    /\ inputsUnchanged /\ fieldsUnchanged
    /\ UNCHANGED preVars

\* validate() up to the batch loop: the two data tables, the index check,
\* the index load and the demographic block.
ValidateStart ==
    /\ pc = "validate"
    /\ \E data_ok, files_exist, create_ok, read_ok \in BOOLEAN, demo \in DemoOutcomes :
          LET idx == IndexCheck(files_exist, create_ok) IN
          IF ~data_ok
          THEN /\ pc' = "error"
               /\ error' = "read_parquet raised"
               /\ UNCHANGED <<val, val_metrics, log, history>>
          ELSE IF idx = "create_failed"
          THEN /\ pc' = "compare"
               /\ val' = [NoVal EXCEPT !.index = idx]
               /\ val_metrics' = NoMetrics
               /\ log' = log \cup {"Error creating index"}
               /\ history' = Append(history, Skipped)
               /\ error' = error
          ELSE IF ~read_ok
          THEN /\ pc' = "error"
               /\ error' = "read_index raised"
               /\ UNCHANGED <<val, val_metrics, log, history>>
          ELSE /\ pc' = "val_batches"
               /\ val' = [NoVal EXCEPT !.index = idx, !.demographic = demo]
               /\ log' = log \cup {IF demo = "loaded" THEN "Loaded demographic data"
                                   ELSE "Warning: Could not load demographic data"}
               /\ UNCHANGED <<val_metrics, history, error>>
    /\ UNCHANGED epoch
    /\ inputsUnchanged /\ fieldsUnchanged /\ worldUnchanged
    /\ UNCHANGED preVars

\* One iteration of the batch loop of validate(): the loss of the batch, then
\* _process_user for each user of the batch.
ValidateBatch ==
    /\ pc = "val_batches"
    /\ val.batch_idx < Len(val_loader)
    /\ \E con_loss \in ContrastiveLossValues, rec_loss \in RecommendationLossValues :
          LET users == val_loader[val.batch_idx + 1]
              loss == con_loss + LambdaRec * rec_loss
              seen == [contrastive    |-> val.batch_losses.contrastive + con_loss,
                       recommendation |-> val.batch_losses.recommendation + rec_loss]
          IN
          IF users > 0
          THEN \* the call for the first user raises, see ProcessUser
               /\ val' = [val EXCEPT !.total_loss = @ + loss, !.batch_losses = seen]
               /\ pc' = "error"
               /\ error' = ProcessUser(val.demographic)
          ELSE /\ val' = [val EXCEPT !.total_loss = @ + loss, !.batch_losses = seen,
                                     !.batch_idx = @ + 1]
               /\ pc' = pc
               /\ error' = error
    /\ UNCHANGED <<epoch, val_metrics, log, history>>
    /\ inputsUnchanged /\ fieldsUnchanged /\ worldUnchanged
    /\ UNCHANGED preVars

\* return self._compile_metrics(...): total_contrastive_loss and
\* total_recommendation_loss are still the 0 they were initialised with.
ValidateCompile ==
    /\ pc = "val_batches"
    /\ val.batch_idx = Len(val_loader)
    /\ IF Len(val_loader) = 0
       THEN /\ pc' = "error"
            /\ error' = "ZeroDivisionError in _compile_metrics"
            /\ UNCHANGED <<val_metrics, history>>
       ELSE LET vm == CompileMetrics(val.total_loss, 0, 0, val.metrics_accum,
                                     val.num_users, Len(val_loader)) IN
            /\ pc' = "compare"
            /\ val_metrics' = vm
            /\ history' = Append(history, Validated(vm))
            /\ error' = error
    /\ UNCHANGED <<epoch, val, log>>
    /\ inputsUnchanged /\ fieldsUnchanged /\ worldUnchanged
    /\ UNCHANGED preVars

\* The rest of the loop body: `if val_metrics:` with the comparison, the
\* checkpoint on improvement and the early-stopping test.
Compare ==
    /\ pc = "compare"
    /\ \E rebuild_ok \in BOOLEAN :
          LET r == CompareToBest(val_metrics, best_metric, best_epoch, no_improvement, epoch)
              s == IF r.save
                   THEN SaveCheckpoint(checkpoints, index_requests, log, epoch, rebuild_ok)
                   ELSE [checkpoints |-> checkpoints, index_requests |-> index_requests,
                         log |-> log, raised |-> FALSE]
              stop == EarlyStop(val_metrics, r.no_improvement, patience)
          IN
          /\ best_metric' = r.best_metric
          /\ best_epoch' = r.best_epoch
          /\ no_improvement' = r.no_improvement
          /\ checkpoints' = s.checkpoints
          /\ index_requests' = s.index_requests
          /\ IF s.raised
             THEN /\ pc' = "error"
                  /\ error' = "indexer raised"
                  /\ log' = s.log
                  /\ epoch' = epoch
             ELSE IF stop
             THEN /\ pc' = "early_stopped"
                  /\ log' = s.log \cup {"Early stopping triggered"}
                  /\ epoch' = epoch
                  /\ error' = error
             ELSE /\ pc' = "loop"
                  /\ log' = s.log
                  /\ epoch' = epoch + 1
                  /\ error' = error
    /\ val' = NoVal      \* the frame of validate() is gone
    /\ UNCHANGED <<val_metrics, history>>
    /\ inputsUnchanged
    /\ UNCHANGED preVars

Next ==
    \/ TrainEpoch
    \/ FirstCheckpoint
    \/ ValidateStart
    \/ ValidateBatch
    \/ ValidateCompile
    \/ Compare
    \/ Complete

Spec == Init /\ [][Next]_vars

\* ------------------------------------------------- preprocessing: the parts
\* Owners occurring in the records.  groupby emits its groups in the order of
\* their keys; OwnerOrder is that order.
OwnerOrder == <<"A", "B">>
Owners == {OwnerOrder[i] : i \in 1..Len(OwnerOrder)}

\* create_hash: the first 16 hex digits of the SHA-256 digest of the text.  No
\* two identities of the model collide.
create_hash(text) == <<"sha256_16", text>>

\* The records load_data can return: record i is the repository <<owner, i>>,
\* so nameWithOwner is unique, with a pushedAt timestamp.
Record(i, o, t) == [owner |-> o, nameWithOwner |-> <<o, i>>, pushedAt |-> t]
Table(n, f) == [i \in 1..n |-> Record(i, f[i][1], f[i][2])]

\* df.sort_values('pushedAt'): the row orders it can produce.  The default
\* sort is not stable, so rows with equal pushedAt come in any order.
RECURSIVE OrdersOf(_, _)
OrdersOf(df, rest) ==
    IF rest = {} THEN {<<>>}
    ELSE LET firsts == {i \in rest : \A j \in rest : df[i].pushedAt <= df[j].pushedAt}
         IN  UNION {{<<i>> \o tail : tail \in OrdersOf(df, rest \ {i})} : i \in firsts}
SortOrders(df) == OrdersOf(df, 1..Len(df))

\* df['repo_id'], df['owner_hash'] and the row order chosen by the sort.
WithHashes(df, p) ==
    [i \in 1..Len(df) |-> [repo_id    |-> create_hash(df[p[i]].nameWithOwner),
                           owner_hash |-> create_hash(df[p[i]].owner)]]

\* groupby('owner_hash')['repo_id'].agg(list) for one key: the repo ids of the
\* key's rows in row order.
GroupList(rows, h) ==
    LET mine == SelectSeq(rows, LAMBDA r : r.owner_hash = h) IN
    [i \in 1..Len(mine) |-> mine[i].repo_id]

\* Variant: `> 0` in place of `> 1`.
KeepHistory_NonEmpty(repo_ids) == Len(repo_ids) > 0

\* user_history['repo_id'].map(len) > 1
KeepHistory(repo_ids) == Len(repo_ids) > 1

\* create_repo_history_sorted on a table, p being the order the sort produced.
create_repo_history_sorted(df, p) ==
    LET rows == WithHashes(df, p)
        all == [i \in 1..Len(OwnerOrder) |->
                   [owner_hash |-> create_hash(OwnerOrder[i]),
                    repo_id    |-> GroupList(rows, create_hash(OwnerOrder[i]))]]
        groups == SelectSeq(all, LAMBDA g : Len(g.repo_id) > 0)
    IN  SelectSeq(groups, LAMBDA g : KeepHistory(g.repo_id))

\* Columns of repo_info = df[[...]].copy() in create_repo_info_table.
RepoInfoColumns == {"nameWithOwner", "description", "primaryLanguage", "languages", "topics"}

HistoryFiles == {"textual_history.parquet", "id_history.parquet", "user_descriptions.parquet"}
MappingFiles == {"mappings/item_id_map.json", "mappings/language_mapping.parquet"}
AllArtifacts == HistoryFiles \cup MappingFiles \cup {"repo_info.parquet"}

\* ------------------------------------------------- preprocessing: the steps
TrainerIdle ==
    /\ epochs = 0
    /\ patience = 0
    /\ train_loader = 0
    /\ val_loader = <<>>
    /\ pc = "idle"
    /\ epoch = 0
    /\ best_metric = NegInf
    /\ best_epoch = 0
    /\ no_improvement = 0
    /\ val = NoVal
    /\ val_metrics = NoMetrics
    /\ error = "none"
    /\ checkpoints = <<>>
    /\ index_requests = <<>>
    /\ log = {}
    /\ history = <<>>

\* The call of main().
InitPre ==
    /\ source_present \in BOOLEAN
    /\ data = <<>>
    /\ pre_pc = "start"
    /\ user_history_df = <<>>
    /\ files = {}
    /\ pre_error = "none"
    /\ TrainerIdle

\* data = load_data()
LoadData ==
    /\ pre_pc = "start"
    /\ IF ~source_present
       THEN /\ pre_pc' = "failed"
            /\ pre_error' = "FileNotFoundError"
            /\ data' = data
       ELSE /\ \E n \in 0..MaxRows :
                  \E f \in [1..n -> Owners \X (1..MaxTime)] : data' = Table(n, f)
            /\ pre_pc' = "loaded"
            /\ pre_error' = pre_error
    /\ UNCHANGED <<source_present, user_history_df, files>>
    /\ UNCHANGED trainerVars

\* user_history_df = create_repo_history_sorted(data)
CreateRepoHistorySorted ==
    /\ pre_pc = "loaded"
    /\ \E p \in SortOrders(data) : user_history_df' = create_repo_history_sorted(data, p)
    /\ pre_pc' = "history"
    /\ UNCHANGED <<source_present, data, files, pre_error>>
    /\ UNCHANGED trainerVars

\* detailed_history_df = create_detailed_repo_history(data)
\* user_descriptions = create_user_description(data)
\* Both read columns the model does not carry; either may raise on them.
CreateTextTables ==
    /\ pre_pc = "history"
    /\ \E ok \in BOOLEAN :
          IF ok
          THEN pre_pc' = "tables" /\ pre_error' = pre_error
          ELSE pre_pc' = "failed" /\ pre_error' = "building a text table raised"
    /\ UNCHANGED <<source_present, data, user_history_df, files>>
    /\ UNCHANGED trainerVars

\* The three to_parquet calls of main().
SaveResults ==
    /\ pre_pc = "tables"
    /\ files' = files \cup HistoryFiles
    /\ pre_pc' = "saved"
    /\ UNCHANGED <<source_present, data, user_history_df, pre_error>>
    /\ UNCHANGED trainerVars

\* repo_info = create_repo_info_table(data); repo_info.to_parquet(...)
\* create_repo_info_table reads repo_info['repo_id'] before it writes the
\* mapping files.
RepoInfoStage ==
    /\ pre_pc = "saved"
    /\ IF "repo_id" \notin RepoInfoColumns
       THEN /\ pre_pc' = "failed"
            /\ pre_error' = "KeyError: repo_id"
            /\ files' = files
       ELSE /\ pre_pc' = "done"
            /\ pre_error' = pre_error
            /\ files' = files \cup MappingFiles \cup {"repo_info.parquet"}
    /\ UNCHANGED <<source_present, data, user_history_df>>
    /\ UNCHANGED trainerVars

NextPre ==
    \/ LoadData
    \/ CreateRepoHistorySorted
    \/ CreateTextTables
    \/ SaveResults
    \/ RepoInfoStage

SpecPre == InitPre /\ [][NextPre]_vars

\* ------------------------------------------------------- reading the history
\* Entry i of h is a validated epoch whose contextual_ndcg is strictly above
\* that of every earlier validated epoch.
HistImproves(h, i) ==
    /\ h[i].validated
    /\ \A j \in 1..(i - 1) : h[j].validated => Gt(h[i].ndcg, h[j].ndcg)

\* Epochs whose loop body has run to its end (the comparison included).
SettledEpochs == IF pc = "compare" THEN Len(history) - 1 ELSE Len(history)
Settled == SubSeq(history, 1, SettledEpochs)

LastImproving(h) ==
    LET I == {i \in 1..Len(h) : HistImproves(h, i)} IN
    IF I = {} THEN 0 ELSE CHOOSE i \in I : \A j \in I : j <= i

\* Validated epochs after the last improving one.
TrailingNonImproving(h) ==
    Cardinality({i \in (LastImproving(h) + 1)..Len(h) : h[i].validated})

SavedAt(e) == \E i \in 1..Len(checkpoints) : checkpoints[i] = ModelPath(e)

TrainErrors == {"training_step raised", "ZeroDivisionError in train_epoch"}
DemoFailures == {"read_failed", "centroid_failed"}

\* a = b on floats
FracEq(a, b) == a # NegInf /\ b # NegInf /\ a[1] * b[2] = b[1] * a[2]

\* ------------------------------------------------------------------ claims

\* The metric sequence of C1 with patience 3: every epoch so far validated,
\* none after epoch 0 improving.
C1_Scenario ==
    /\ patience = 3
    /\ \A i \in 1..Len(history) :
          history[i].validated /\ (i > 1 => ~HistImproves(history, i))

\* C1: with patience 3 and a contextual_ndcg sequence that improves at epoch 0
\* only, epochs 1 and 2 end with the counter at 1 and 2 without a halt, the run
\* halts at the end of epoch 3 with the counter at 3, and epoch 4 never starts.
\* For every patience p >= 1 the run halts exactly at the end of the p-th
\* validated non-improving epoch since the last improvement.
C1_EarlyStopAtPatience ==
    /\ C1_Scenario =>
          /\ epoch <= 3
          /\ (pc = "loop" /\ epoch >= 1 => no_improvement = epoch - 1)
          /\ (pc = "early_stopped" <=> SettledEpochs = 4)
          /\ (pc = "early_stopped" => epoch = 3 /\ no_improvement = 3)
    /\ patience >= 1 =>
          /\ pc = "early_stopped" =>
                /\ TrailingNonImproving(Settled) = patience
                /\ epoch = Len(history) - 1
                /\ history[Len(history)].validated
                /\ ~HistImproves(history, Len(history))
          /\ pc # "early_stopped" => TrailingNonImproving(Settled) < patience

C1_Witness ==
    /\ C1_Scenario
    /\ pc = "early_stopped"
    /\ epoch = 3
    /\ no_improvement = 3
    /\ epochs > 4

\* Epoch 0's training pass is over and its validation is about to start, is
\* running or is over.
ValidationReached ==
    \/ pc \in {"validate", "val_batches", "compare", "early_stopped"}
    \/ epoch >= 1
    \/ pc = "error" /\ error \notin TrainErrors

\* C2: whatever epoch 0's validation does, the checkpoint model_epoch_0 is
\* written after epoch 0's training pass and before its validation starts: it
\* is the first write, present in every state from the start of validation on.
C2_CheckpointOnFirstEpoch ==
    ValidationReached =>
        /\ Len(checkpoints) >= 1
        /\ checkpoints[1] = ModelPath(0)
        /\ (pc = "validate" /\ epoch = 0 => history = <<>> /\ Len(checkpoints) = 1)

C2_Witness ==
    /\ epoch = 0
    /\ pc = "compare"
    /\ ~history[1].validated
    /\ SavedAt(0)

C3_State ==
    \A e \in 1..(SettledEpochs - 1) : SavedAt(e) <=> HistImproves(history, e + 1)

C3_Equal ==
    (pc = "compare" /\ Truthy(val_metrics)
        /\ FracEq(CurrentMetric(val_metrics), best_metric))
    => (no_improvement' = no_improvement + 1 /\ checkpoints' = checkpoints)

\* C3: for every epoch e >= 1 a checkpoint is saved at epoch e exactly when its
\* validation returned metrics whose contextual_ndcg is strictly above that of
\* every earlier validated epoch; a value equal to the best saves nothing and
\* increments the no-improvement counter.
C3_CheckpointIffStrictImprovement == []C3_State /\ [][C3_Equal]_vars

C3_Witness ==
    /\ pc = "loop"
    /\ epoch = 3
    /\ ~history[1].validated
    /\ history[2].validated /\ SavedAt(1)
    /\ history[3].validated /\ ~SavedAt(2)
    /\ no_improvement = 1

C4_Skip ==
    (pc = "compare" /\ val.index = "create_failed")
    => /\ UNCHANGED <<best_metric, best_epoch, no_improvement, checkpoints, index_requests>>
       /\ pc' = "loop"
       /\ epoch' = epoch + 1
       /\ error' = "none"

C4_Returned ==
    val.index = "create_failed" =>
        /\ pc = "compare"
        /\ val_metrics.is_none
        /\ ~history[Len(history)].validated
        /\ "Error creating index" \in log

\* C4: when the index files are absent and the on-demand creation fails,
\* validate returns no metrics, and train leaves best_metric, best_epoch and
\* the counter as they are, saves nothing, does not stop, and moves to the
\* next epoch.
C4_FailedIndexCreationSkipsEpoch == []C4_Returned /\ [][C4_Skip]_vars

C4_Witness ==
    /\ pc = "validate"
    /\ epoch = 3
    /\ Len(history) = 3
    /\ history[1].validated /\ history[2].validated /\ ~history[3].validated
    /\ no_improvement = 1
    /\ best_epoch = 0

C5_Requests ==
    /\ Len(index_requests) = Len(checkpoints)
    /\ \A i \in 1..Len(checkpoints) : index_requests[i].model_path = checkpoints[i]

C5_FailedRebuild ==
    (/\ Len(index_requests') = Len(index_requests) + 1
     /\ ~index_requests'[Len(index_requests')].ok)
    => /\ pc' # "error"
       /\ error' = "none"
       /\ "Error updating index" \in log'
       /\ IF pc = "first_checkpoint"
          THEN /\ pc' = "validate"
               /\ UNCHANGED <<best_metric, best_epoch, no_improvement, epoch>>
          ELSE /\ pc = "compare"
               /\ best_metric' = CurrentMetric(val_metrics)
               /\ best_epoch' = epoch
               /\ no_improvement' = 0
               /\ pc' = IF patience = 0 THEN "early_stopped" ELSE "loop"

\* C5: every checkpoint save issues an index-rebuild request with the saved
\* model path; a failing rebuild is caught and logged, train goes on with the
\* same step as after a successful rebuild, and best_metric, best_epoch and the
\* counter get the values the comparison gives them.
C5_RebuildFailureIsNotFatal == []C5_Requests /\ [][C5_FailedRebuild]_vars

C5_Witness ==
    /\ pc = "loop"
    /\ epoch = 1
    /\ Len(index_requests) = 2
    /\ ~index_requests[1].ok /\ ~index_requests[2].ok
    /\ history[1].validated
    /\ best_metric = Zero

\* C6: no failure of a training or validation pass ends train() with an
\* error: the run ends only in "completed" or "early_stopped".
C6_FailuresNeverAbortTraining == pc # "error"

\* C7: when loading the demographic data fails, the validation pass over a
\* non-empty stream still goes through every batch and user and returns its
\* metrics: no error reaches train().
C7_DemographicFailureDegrades ==
    (val.demographic \in DemoFailures /\ Len(val_loader) > 0) => pc # "error"

\* C8: a failing preprocessing run has written none of the derived artifacts;
\* a finished run has written all of them.
C8_NoPartialArtifacts ==
    /\ pre_pc = "failed" => files = {}
    /\ pre_pc = "done" => files = AllArtifacts

\* create_repo_history_sorted has returned.
HistoryBuilt == pre_pc \in {"history", "tables", "saved", "done"}

RecordsOf(o) == {i \in 1..Len(data) : data[i].owner = o}
PushedAt(repo_id) ==
    LET i == CHOOSE k \in 1..Len(data) : create_hash(data[k].nameWithOwner) = repo_id
    IN  data[i].pushedAt

\* C9: an owner with at most one record has no row in the sorted-history
\* table; an owner with two or more records has exactly one row, listing
\* exactly that owner's items by non-decreasing last-updated timestamp; the
\* table has no other row.
C9_SortedHistory ==
    HistoryBuilt =>
        /\ \A o \in Owners :
              LET rows == {i \in 1..Len(user_history_df) :
                              user_history_df[i].owner_hash = create_hash(o)}
              IN  IF Cardinality(RecordsOf(o)) <= 1
                  THEN rows = {}
                  ELSE /\ Cardinality(rows) = 1
                       /\ \A i \in rows :
                             LET ids == user_history_df[i].repo_id IN
                             /\ Len(ids) = Cardinality(RecordsOf(o))
                             /\ {ids[k] : k \in 1..Len(ids)} =
                                   {create_hash(data[r].nameWithOwner) : r \in RecordsOf(o)}
                             /\ \A k \in 1..(Len(ids) - 1) :
                                   PushedAt(ids[k]) <= PushedAt(ids[k + 1])
        /\ \A i \in 1..Len(user_history_df) :
              \E o \in Owners : user_history_df[i].owner_hash = create_hash(o)

\* Owner A with one item, owner B with three items at t1 < t3 < t2.
C9_Witness ==
    /\ HistoryBuilt
    /\ data = <<Record(1, "A", 2), Record(2, "B", 1), Record(3, "B", 3), Record(4, "B", 2)>>
    /\ user_history_df =
          <<[owner_hash |-> create_hash("B"),
             repo_id |-> <<create_hash(<<"B", 2>>), create_hash(<<"B", 4>>),
                           create_hash(<<"B", 3>>)>>]>>

\* C10: no checkpoint location model_epoch_<N> is written twice.
C10_CheckpointWrittenOnce ==
    \A i, j \in 1..Len(checkpoints) : i # j => checkpoints[i] # checkpoints[j]

\* A validation pass is about to read, or is reading, the index.
ValidationRunning == pc \in {"validate", "val_batches"}

C11_Settled ==
    ValidationRunning =>
        /\ Len(index_requests) = Len(checkpoints)
        /\ \A i \in 1..Len(index_requests) :
              /\ index_requests[i].model_path[2] <= epoch
              /\ index_requests[i].ok => "FAISS index updated successfully" \in log
              /\ ~index_requests[i].ok => "Error updating index" \in log

C11_Quiet == ValidationRunning => UNCHANGED <<checkpoints, index_requests>>

\* C11: when a validation pass begins, every checkpoint save of the epochs so
\* far has had its index rebuild, which has succeeded or has failed and been
\* logged; and no step of a validation pass saves a checkpoint or requests a
\* rebuild.
C11_RebuildSettledBeforeValidation == []C11_Settled /\ [][C11_Quiet]_vars

C11_Witness ==
    /\ pc = "val_batches"
    /\ epoch = 1
    /\ Len(index_requests) = 2
    /\ index_requests[1].ok /\ ~index_requests[2].ok
    /\ "Error updating index" \in log

\* C12: the metrics validate() returns hold, for each per-user metric, its sum
\* over the validated users divided by their number, and for val_loss,
\* val_contrastive_loss and val_recommendation_loss the sum of the per-batch
\* loss divided by the number of validation batches.
C12_MetricsAreMeans ==
    (pc = "compare" /\ ~val_metrics.is_none) =>
        LET d == val_metrics.dict
            n == Len(val_loader)
            con == val.batch_losses.contrastive
            rec == val.batch_losses.recommendation
        IN  /\ FracEq(d["val_loss"], Frac(con + LambdaRec * rec, n))
            /\ FracEq(d["val_contrastive_loss"], Frac(con, n))
            /\ FracEq(d["val_recommendation_loss"], Frac(rec, n))
            /\ \A k \in DOMAIN d \ LossKeys :
                  /\ val.num_users > 0
                  /\ FracEq(d[k], Frac(val.metrics_accum[k], val.num_users))

\* train() stands between two epochs or has returned.
AtEpochBoundary == pc \in {"loop", "completed", "early_stopped"}

ValidatedEpochs == {i \in 1..Len(history) : history[i].validated}

\* Entry i carries the largest contextual_ndcg of the validated epochs.
IsMaximal(i) ==
    /\ i \in ValidatedEpochs
    /\ \A j \in ValidatedEpochs : ~Gt(history[j].ndcg, history[i].ndcg)

C13_State ==
    AtEpochBoundary =>
        IF ValidatedEpochs = {}
        THEN best_metric = NegInf
        ELSE \E i \in ValidatedEpochs :
                /\ IsMaximal(i)
                /\ \A j \in ValidatedEpochs : IsMaximal(j) => i <= j
                /\ FracEq(best_metric, history[i].ndcg)
                /\ best_epoch = i - 1

C13_Step ==
    /\ ~Gt(best_metric, best_metric')
    /\ (pc = "compare" /\ Truthy(val_metrics)
           /\ \A i \in 1..(Len(history) - 1) : ~history[i].validated)
       => /\ best_metric' = CurrentMetric(val_metrics)
          /\ best_epoch' = epoch
          /\ no_improvement' = 0

\* C13: at every epoch boundary best_metric is the largest contextual_ndcg of
\* the epochs validated so far (float('-inf') when there is none) and
\* best_epoch the earliest epoch that reached it; best_metric never decreases,
\* and the first validated epoch counts as an improvement.
C13_BestIsRunningMaximum == []C13_State /\ [][C13_Step]_vars

C13_Witness ==
    /\ pc = "loop"
    /\ epoch = 3
    /\ ~history[1].validated /\ history[2].validated /\ history[3].validated
    /\ best_epoch = 1
    /\ best_metric = Zero

\* C14: for patience >= 1 the counter is the number of validated epochs
\* without improvement since the last improving one (skipped epochs not
\* counted), it lies in 0..patience, it is below patience unless the run has
\* stopped early, and an early stop comes at the end of a validated epoch
\* without improvement, with the counter at patience.
C14_CounterInvariant ==
    patience >= 1 =>
        /\ no_improvement = TrailingNonImproving(Settled)
        /\ no_improvement \in 0..patience
        /\ pc # "early_stopped" => no_improvement < patience
        /\ pc = "early_stopped" =>
              /\ no_improvement = patience
              /\ history[Len(history)].validated
              /\ ~HistImproves(history, Len(history))
              /\ epoch = Len(history) - 1

C14_Witness ==
    /\ pc = "early_stopped"
    /\ patience = 2
    /\ Len(history) = 4
    /\ history[1].validated /\ ~history[2].validated
    /\ history[3].validated /\ history[4].validated
    /\ no_improvement = 2

====
